---- MODULE Spec2Model ----
(***************************************************************************)
(* PymvDB: a SQLite-backed image-vector store.  The model covers the local *)
(* Client / Collection pair (Client.py, Collection.py), the ranking done   *)
(* by Collection.find_similar_images, the metadata predicate, and the      *)
(* remote pair HTTPclient / HTTPCollection talking to the Flask handlers   *)
(* of server.py.                                                           *)
(*                                                                         *)
(* Four specifications share the state:                                    *)
(*   Spec          the life cycle of a store at a persistent path;         *)
(*   SpecAnyConfig creating, inserting and reading, with                   *)
(*                 persistent_path=None allowed too;                       *)
(*   SpecQuery     find_similar_images applied to every stored content     *)
(*                 and every argument of the input sets;                   *)
(*   SpecMatch     _metadata_matches applied to every pair of dicts.       *)
(***************************************************************************)
EXTENDS Integers, Sequences, FiniteSets, TLC

\* ------------------------------------------------------------------ bounds
\* Most rows the whole store may hold in Spec (guard of the insert action).
MaxRows == 2
\* Most rows of the stored table SpecQuery starts from.
MaxStored == 3
\* Largest top_N a query of SpecQuery passes.
MaxTopN == 2
\* Most negative top_N a query of SpecQuery passes is -MaxNegTopN.
MaxNegTopN == 1

\* ------------------------------------------------------------ input domains
\* Collection names (table names).
Names == {"a", "b"}
\* Identity keys (image_file_name).
Paths == {"k1", "k2", "k3"}
\* Stored images: an image stands for its base64 payload.
Images == {"i0", "i1", "i2"}
\* Images a query may pass.
QueryImages == {"i0", "i1", "i4", "i5"}

\* The embedding function handed to Client / Collection: image -> vector.
\* It is an opaque collaborator; a fixed table stands for it.
EmbeddingModel(img) ==
    CASE img = "i1"  -> <<1, 0>>
      [] img = "i2"  -> <<0, 1>>
      [] img = "i4"  -> <<1, 1>>
      [] img = "i5"  -> <<-1, 0>>
      [] OTHER       -> <<0, 0>>

\* The image the file at `path` holds (what Image.open(path) and the base64
\* of the file's bytes give).
FileImage(path) ==
    CASE path = "k1" -> "i1"
      [] path = "k2" -> "i2"
      [] OTHER       -> "i0"

\* Defaults of find_similar_images(target_image, top_N=5, threshold=0.0,
\* where=None).
DefaultTopN == 5
DefaultThreshold == <<0, 1>>
\* ------------------------------------------------------- metadata values
\* A JSON scalar is a pair <<tag, n>>: tag is its Python type, n an integer
\* code of the value (for "str" the code of the text, for "bool" 0/1).
VNone      == <<"null", 0>>
VStr(n)    == <<"str", n>>
VNum(n)    == <<"num", n>>
VBool(b)   == <<"bool", IF b THEN 1 ELSE 0>>
Png        == VStr(1)

\* Python's == on two JSON scalars: bool is a subclass of int, so True == 1
\* and False == 0; None equals only None; a str equals only the same str.
PyEq(x, y) ==
    LET numeric(v) == v[1] \in {"num", "bool"}
    IN  IF numeric(x) /\ numeric(y) THEN x[2] = y[2]
        ELSE x[1] = y[1] /\ x[2] = y[2]

\* A dict is a function from a finite set of keys to scalars.
EmptyDict == [k \in {} |-> VNone]
Dict1(k, v) == [x \in {k} |-> v]

\* dict.get(key): the value, or None when the key is missing.
DictGet(d, key) == IF key \in DOMAIN d THEN d[key] ELSE VNone

\* The `where` argument: Python's None, or a dict.
WhereNone    == [none |-> TRUE,  d |-> EmptyDict]
WhereDict(d) == [none |-> FALSE, d |-> d]

\* Collection._metadata_matches(metadata, where): `not where` is true of None
\* and of the empty dict; otherwise every item of where must compare equal
\* to metadata.get(key).
MetadataMatches(metadata, where) ==
    IF where.none \/ DOMAIN where.d = {} THEN TRUE
    ELSE \A key \in DOMAIN where.d :
            PyEq(DictGet(metadata, key), where.d[key])

\* json.dumps(metadata) / json.loads(text) for a dict with string keys and
\* scalar values: the text is the set of its "key": value members.
JsonDumps(d) == {<<k, d[k]>> : k \in DOMAIN d}
JsonLoads(text) ==
    [k \in {m[1] : m \in text} |-> (CHOOSE m \in text : m[1] = k)[2]]

\* ------------------------------------------------------------- vectors
\* The little-endian IEEE-754 binary32 bytes of the small whole numbers the
\* embedding table uses.
F32Bytes(x) ==
    CASE x = 0  -> <<0, 0, 0, 0>>
      [] x = 1  -> <<0, 0, 128, 63>>
      [] x = 2  -> <<0, 0, 0, 64>>
      [] x = -1 -> <<0, 0, 128, 191>>

F32Values == {-1, 0, 1, 2}

\* np.array(vector).tobytes() of a float32 array.
RECURSIVE ToBytes(_)
ToBytes(vector) ==
    IF vector = <<>> THEN <<>>
    ELSE F32Bytes(Head(vector)) \o ToBytes(Tail(vector))

\* np.frombuffer(blob, dtype=np.float32): every four bytes are one element.
RECURSIVE FromBuffer(_)
FromBuffer(blob) ==
    IF Len(blob) < 4 THEN <<>>
    ELSE <<CHOOSE x \in F32Values : F32Bytes(x) = SubSeq(blob, 1, 4)>>
         \o FromBuffer(SubSeq(blob, 5, Len(blob)))

\* The little-endian IEEE-754 binary64 bytes of the doubles 0.0 and 2.0.
F64Bytes(x) ==
    CASE x = 0 -> <<0, 0, 0, 0, 0, 0, 0, 0>>
      [] x = 2 -> <<0, 0, 0, 0, 0, 0, 0, 64>>

\* An array as add_image_vector may be handed one: its element type, its
\* shape, and its elements in C order.
NoArray == [dtype |-> "", shape |-> <<>>, data |-> <<>>]
Float32Array(data) == [dtype |-> "float32", shape |-> <<Len(data)>>, data |-> data]

\* np.array(vector).tobytes(): the elements in C order, each in the width of
\* the array's own element type; the shape is not written.
RECURSIVE ArrayToBytes(_)
ArrayToBytes(array) ==
    IF array.dtype = "float32" THEN ToBytes(array.data)
    ELSE IF array.data = <<>> THEN <<>>
    ELSE F64Bytes(Head(array.data))
         \o ArrayToBytes([array EXCEPT !.data = Tail(@)])

\* np.dot of two vectors of equal length.
RECURSIVE Dot(_, _)
Dot(v1, v2) ==
    IF v1 = <<>> THEN 0 ELSE Head(v1) * Head(v2) + Dot(Tail(v1), Tail(v2))

Sgn(x) == IF x > 0 THEN 1 ELSE IF x < 0 THEN -1 ELSE 0

RECURSIVE Gcd(_, _)
Gcd(x, y) == IF y = 0 THEN x ELSE Gcd(y, x % y)

\* A score is a pair <<p, q>> standing for the real number
\* sgn(p) * sqrt(|p| / q), in lowest terms; <<0, 0>> is NaN.
NaN == <<0, 0>>

\* Collection.calculate_cosine_similarity: dot / (norm1 * norm2).  With a zero
\* norm numpy divides 0.0 by 0.0 and returns nan.
CalculateCosineSimilarity(vector1, vector2) ==
    LET d   == Dot(vector1, vector2)
        den == Dot(vector1, vector1) * Dot(vector2, vector2)
        num == d * d
        g   == Gcd(num, den)
    IN  IF den = 0 THEN NaN
        ELSE IF num = 0 THEN <<0, 1>>
        ELSE <<Sgn(d) * (num \div g), den \div g>>

\* A threshold is a rational <<n, d>>, d > 0; as a score it is
\* <<sgn(n) * n^2, d^2>>.
AsScore(thr) == <<Sgn(thr[1]) * thr[1] * thr[1], thr[2] * thr[2]>>

\* Python's >= on two floats: false as soon as one side is nan.
Ge(s, t) == s[2] # 0 /\ t[2] # 0 /\ s[1] * t[2] >= t[1] * s[2]
Gt(s, t) == s[2] # 0 /\ t[2] # 0 /\ s[1] * t[2] > t[1] * s[2]

\* ----------------------------------------------------- collection names
\* A name argument is a sequence of characters.  Collection puts it verbatim
\* into its statements (f"CREATE TABLE IF NOT EXISTS {self.name} (...)"), so
\* what table a name denotes is decided by SQLite's reading of the text at
\* the place of the table name.  The texts considered are the sequences over
\* NameChars.
Letters    == {"a", "b", "e", "i", "m", "n", "p", "t"}
Digits     == {"0", "1"}
IdentChars == Letters \cup Digits \cup {"_"}
QuoteChars == {"\"", "'", "["}
NameChars  == IdentChars \cup QuoteChars \cup {"]", " ", ".", "-", "/", "*"}

\* The words over IdentChars that SQLite reserves (TEMP may name a table).
Keywords == {<<"i", "n">>}

RECURSIVE Join(_)
Join(chars) == IF chars = <<>> THEN "" ELSE Head(chars) \o Join(Tail(chars))

\* The tokens of the tokenizer: an identifier with its name, the dot, a token
\* no table name can hold, and the end of the statement's first line being
\* swallowed by a comment.
IdToken(name) == [kind |-> "id",  name |-> name]
DotToken      == [kind |-> "dot", name |-> ""]
BadToken      == [kind |-> "bad", name |-> ""]
EofToken      == [kind |-> "eof", name |-> ""]

\* The character that closes a quoted identifier opened by c.
Closing(c) == IF c = "[" THEN "]" ELSE c

\* The first position at or after i that holds no identifier character.
RECURSIVE IdentEnd(_, _)
IdentEnd(text, i) ==
    IF i > Len(text) \/ text[i] \notin IdentChars THEN i
    ELSE IdentEnd(text, i + 1)

\* The position after the "*/" that ends a comment whose body starts at i,
\* or 0 when the comment is not closed.
RECURSIVE CommentEnd(_, _)
CommentEnd(text, i) ==
    IF i + 1 > Len(text) THEN 0
    ELSE IF text[i] = "*" /\ text[i + 1] = "/" THEN i + 2
    ELSE CommentEnd(text, i + 1)

\* A quoted identifier read from position i (after the opening character):
\* a doubled closing character stands for itself, except inside [...].
RECURSIVE QuotedScan(_, _, _, _)
QuotedScan(text, i, close, name) ==
    IF i > Len(text) THEN [ok |-> FALSE, name |-> "", next |-> i]
    ELSE IF text[i] # close THEN QuotedScan(text, i + 1, close, name \o text[i])
    ELSE IF close # "]" /\ i < Len(text) /\ text[i + 1] = close
         THEN QuotedScan(text, i + 2, close, name \o close)
    ELSE [ok |-> TRUE, name |-> name, next |-> i + 1]

\* SQLite's tokens of the text from position i on: blanks and /* */ comments
\* are skipped; a "--" comment or an unclosed /* comment swallows the "(" that
\* follows the name in the statement.
RECURSIVE Tokens(_, _)
Tokens(text, i) ==
    IF i > Len(text) THEN <<>>
    ELSE IF text[i] = " " THEN Tokens(text, i + 1)
    ELSE IF text[i] = "/" /\ i < Len(text) /\ text[i + 1] = "*"
         THEN IF CommentEnd(text, i + 2) = 0 THEN <<EofToken>>
              ELSE Tokens(text, CommentEnd(text, i + 2))
    ELSE IF text[i] = "-" /\ i < Len(text) /\ text[i + 1] = "-"
         THEN <<EofToken>>
    ELSE IF text[i] \in IdentChars \ Digits
         THEN LET j    == IdentEnd(text, i)
                  word == SubSeq(text, i, j - 1)
              IN  <<IF word \in Keywords THEN BadToken ELSE IdToken(Join(word))>>
                  \o Tokens(text, j)
    ELSE IF text[i] \in QuoteChars
         THEN LET q == QuotedScan(text, i + 1, Closing(text[i]), "")
              IN  IF q.ok THEN <<IdToken(q.name)>> \o Tokens(text, q.next)
                  ELSE <<BadToken>>
    ELSE IF text[i] = "." /\ ~(i < Len(text) /\ text[i + 1] \in Digits)
         THEN <<DotToken>> \o Tokens(text, i + 1)
    ELSE <<BadToken>>

\* The table the CREATE TABLE statement of a Collection of this name makes:
\* `name` is a table of the file, `main.name` the same, `temp.name` a table of
\* the connection's own temporary schema; any other reading ends in
\* sqlite3.OperationalError (a syntax error, or an unknown schema).
SqlTableName(text) ==
    LET tokens == Tokens(text, 1)
        kinds  == [i \in DOMAIN tokens |-> tokens[i].kind]
        error  == [exc |-> "OperationalError", schema |-> "", table |-> ""]
    IN  IF kinds = <<"id">>
        THEN [exc |-> "", schema |-> "main", table |-> tokens[1].name]
        ELSE IF kinds = <<"id", "dot", "id">> /\ tokens[1].name \in {"main", "temp"}
        THEN [exc |-> "", schema |-> tokens[1].name, table |-> tokens[3].name]
        ELSE error

\* ------------------------------------------------------------- the store
\* A table of the SQLite file: whether it exists, its rows in rowid order, and
\* its place among the tables of sqlite_master (0 when it does not exist):
\* sqlite_master lists the tables in the order they were created.
\* A row is [image_base64, image_file_name, vector (BLOB), metadata (TEXT)].
NoTable    == [exists |-> FALSE, rows |-> <<>>, rank |-> 0]
EmptyDb    == [n \in Names |-> NoTable]

HasKey(table, path) == \E i \in DOMAIN table.rows : table.rows[i].image_file_name = path

\* The tables a database holds.
Tables(d) == {n \in DOMAIN d : d[n].exists}

\* A table just created in database d: empty, and last in sqlite_master.
NewTable(d) == [exists |-> TRUE, rows |-> <<>>, rank |-> Cardinality(Tables(d)) + 1]

\* SELECT name FROM sqlite_master WHERE type='table': the tables, oldest first.
MasterTables(d) ==
    [i \in 1..Cardinality(Tables(d)) |-> CHOOSE n \in Tables(d) : d[n].rank = i]

\* (mutant) a drop that takes every table of the file with it.
DropEveryTable(d, name) == [n \in DOMAIN d |-> NoTable]

\* DROP TABLE IF EXISTS <name>: the later tables move up in sqlite_master.
DropTableIfExists(d, name) ==
    IF ~d[name].exists THEN d
    ELSE [n \in DOMAIN d |->
            IF n = name THEN NoTable
            ELSE IF d[n].rank > d[name].rank THEN [d[n] EXCEPT !.rank = @ - 1]
            ELSE d[n]]

\* (mutant) a provisioning that makes the table anew, with or without rows.
CreateTableAnew(d, name) ==
    [DropTableIfExists(d, name) EXCEPT ![name] = NewTable(DropTableIfExists(d, name))]

\* CREATE TABLE IF NOT EXISTS <name> (...).
CreateTableIfNotExists(d, name) ==
    IF d[name].exists THEN d ELSE [d EXCEPT ![name] = NewTable(d)]

\* (mutant) the column without its UNIQUE constraint: every insert appends.
InsertRowNotUnique(table, row) ==
    [status |-> "ok", table |-> [table EXCEPT !.rows = Append(@, row)]]

\* INSERT INTO <name> ... on a table whose image_file_name column is UNIQUE:
\* "ok" with the row appended, or "IntegrityError" with the table as it was.
InsertRow(table, row) ==
    IF HasKey(table, row.image_file_name)
    THEN [status |-> "IntegrityError", table |-> table]
    ELSE [status |-> "ok", table |-> [table EXCEPT !.rows = Append(@, row)]]

\* SELECT image_base64, image_file_name, vector, metadata FROM <name>: a full
\* scan of the table, which yields the rows in rowid order.
SelectAll(table) == table.rows

\* The four lists Collection.get_all_vectors builds from the fetched rows.
DecodeRows(rows) ==
    [files    |-> [i \in DOMAIN rows |-> rows[i].image_base64],
     paths    |-> [i \in DOMAIN rows |-> rows[i].image_file_name],
     vectors  |-> [i \in DOMAIN rows |-> FromBuffer(rows[i].vector)],
     metadata |-> [i \in DOMAIN rows |-> JsonLoads(rows[i].metadata)]]

\* --------------------------------------------------------------- ranking
\* list.sort(key=lambda x: x[2], reverse=True): a stable sort, so items with
\* equal scores keep their order.  An item is <<path, base64, score, metadata>>.
\* (mutant) an insertion that puts x before the items of equal score.
InsertDescUnstable(sorted, x) ==
    LET after == {i \in DOMAIN sorted : ~Gt(sorted[i][3], x[3])}
        pos   == IF after = {} THEN Len(sorted) + 1
                 ELSE CHOOSE i \in after : \A j \in after : i <= j
    IN  SubSeq(sorted, 1, pos - 1) \o <<x>> \o SubSeq(sorted, pos, Len(sorted))

InsertDesc(sorted, x) ==
    LET after == {i \in DOMAIN sorted : ~Ge(sorted[i][3], x[3])}
        pos   == IF after = {} THEN Len(sorted) + 1
                 ELSE CHOOSE i \in after : \A j \in after : i <= j
    IN  SubSeq(sorted, 1, pos - 1) \o <<x>> \o SubSeq(sorted, pos, Len(sorted))

\* (mutant) the sort without reverse=True: ascending.
RECURSIVE SortAsc(_)
SortAsc(s) ==
    IF s = <<>> THEN <<>>
    ELSE LET rest   == SortAsc(SubSeq(s, 1, Len(s) - 1))
             x      == s[Len(s)]
             after  == {i \in DOMAIN rest : Gt(rest[i][3], x[3])}
             pos    == IF after = {} THEN Len(rest) + 1
                       ELSE CHOOSE i \in after : \A j \in after : i <= j
         IN  SubSeq(rest, 1, pos - 1) \o <<x>> \o SubSeq(rest, pos, Len(rest))

RECURSIVE SortDesc(_)
SortDesc(s) ==
    IF s = <<>> THEN <<>>
    ELSE InsertDesc(SortDesc(SubSeq(s, 1, Len(s) - 1)), s[Len(s)])

\* The slice lst[:n]: for n < 0 Python counts from the end.
SlicePrefix(lst, n) ==
    IF n >= 0 THEN SubSeq(lst, 1, IF n < Len(lst) THEN n ELSE Len(lst))
    ELSE SubSeq(lst, 1, IF Len(lst) + n > 0 THEN Len(lst) + n ELSE 0)

RECURSIVE SelectIdx(_, _, _)
\* The indices i of 1..n, ascending, with keep[i].
SelectIdx(keep, i, n) ==
    IF i > n THEN <<>>
    ELSE (IF keep[i] THEN <<i>> ELSE <<>>) \o SelectIdx(keep, i + 1, n)

\* Whether row i goes into similar_images.
Eligible(similarity, metadata, threshold, where) ==
    Ge(similarity, AsScore(threshold)) /\ MetadataMatches(metadata, where)

\* (mutant) the count with a strict comparison.
NFindingsStrict(similarities, threshold) ==
    Cardinality({i \in DOMAIN similarities :
                    Gt(similarities[i], AsScore(threshold))})

\* len([sim for sim in similarities if sim >= threshold]).
NFindings(similarities, threshold) ==
    Cardinality({i \in DOMAIN similarities :
                    Ge(similarities[i], AsScore(threshold))})

\* Collection.find_similar_images on the fetched rows.
FindSimilarImages(rows, target_image, top_N, threshold, where) ==
    LET target_vector == EmbeddingModel(target_image)
        all           == DecodeRows(rows)
        n             == Len(all.vectors)
        similarities  == [i \in 1..n |->
                            CalculateCosineSimilarity(target_vector, all.vectors[i])]
        keep          == [i \in 1..n |->
                            Eligible(similarities[i], all.metadata[i], threshold, where)]
        idx           == SelectIdx(keep, 1, n)
        similar       == [j \in DOMAIN idx |->
                            <<all.paths[idx[j]], all.files[idx[j]],
                              similarities[idx[j]], all.metadata[idx[j]]>>]
        top           == SlicePrefix(SortDesc(similar), top_N)
    IN  [n_findings |-> NFindings(similarities, threshold),
         scores     |-> [j \in DOMAIN top |-> top[j][3]],
         files      |-> [j \in DOMAIN top |-> top[j][1]],
         base64     |-> [j \in DOMAIN top |-> top[j][2]],
         metadata   |-> [j \in DOMAIN top |-> top[j][4]]]

\* ---------------------------------------------------------------- inputs
Metas      == {EmptyDict, Dict1("ext", Png)}
Wheres     == {WhereNone, WhereDict(Dict1("ext", Png))}
Thresholds == {<<0, 1>>, <<1, 2>>, <<1, 1>>}
TopNs      == (0 - MaxNegTopN) .. MaxTopN
\* The (image, metadata) pairs the life cycle inserts.
Inserts    == {[image |-> "i1", metadata |-> EmptyDict],
               [image |-> "i2", metadata |-> Dict1("ext", Png)],
               [image |-> "i0", metadata |-> EmptyDict]}

\* ----------------------------------------------------------------- state
VARIABLES
    conn_str,      \* Client.conn_str: "file" (a persistent path) or ":memory:"
    db,            \* the tables of the SQLite file at the persistent path
    handles,       \* names of the Collection objects constructed so far
    srv_db,        \* the tables of the server's db.db3
    last,          \* the last call: its arguments, and what it returned or raised
    resetting      \* the reset_collection or reset call in flight, between its
                   \* statements (one such call at a time)

vars == <<conn_str, db, handles, srv_db, last, resetting>>

NoResult == [n_findings |-> 0, scores |-> <<>>, files |-> <<>>,
             base64 |-> <<>>, metadata |-> <<>>]
NoAll    == [files |-> <<>>, paths |-> <<>>, vectors |-> <<>>, metadata |-> <<>>]

\* exc = "" : the call returned; otherwise the exception it raised.  `again`
\* marks a query that repeats the one before it, whose result is `before`;
\* `dropped` is the number of rows a reset_collection removed; `status` is
\* the status code of the response a remote call got (0 for a local call);
\* `text` is the name argument of a create_collection, character by character;
\* `returned` is what an add_image_vector that did not raise handed back,
\* `vector` the array it was given; `alone` tells of a reset_collection that
\* no other call came between its two transactions.
NoCall == [op |-> "", coll |-> "", exc |-> "",
           path |-> "", image |-> "", meta |-> EmptyDict,
           top_N |-> 0, threshold |-> <<0, 1>>, where |-> WhereNone,
           result |-> NoResult, all |-> NoAll, matches |-> FALSE,
           again |-> FALSE, before |-> NoResult, dropped |-> 0,
           status |-> 0, text |-> <<>>, returned |-> "", vector |-> NoArray,
           alone |-> FALSE]

\* sqlite3.connect(conn_str): the tables the new connection sees.  Every
\* connection to ":memory:" opens a fresh, empty database.
\* No reset call in flight.  Of a reset_collection in flight: the collection
\* and the number of rows its DROP removed; of a reset: the tables still to drop.
NoReset == [op |-> "", coll |-> "", todo |-> <<>>, dropped |-> 0]

ConnectTo(file) == IF conn_str = ":memory:" THEN EmptyDb ELSE file
Connect == ConnectTo(db)

\* What the file holds once a connection that left `d` is committed and
\* closed: a ":memory:" database is discarded with its connection.
CommitTo(file, d) == IF conn_str = ":memory:" THEN file ELSE d
Commit(d) == CommitTo(db, d)

RECURSIVE SumRows(_, _)
SumRows(d, S) ==
    IF S = {} THEN 0
    ELSE LET n == CHOOSE n \in S : TRUE
         IN  Len(d[n].rows) + SumRows(d, S \ {n})

TotalRows(d) == SumRows(d, Names)

\* Client.__init__ with a persistent path.
Init ==
    /\ conn_str = "file"
    /\ db = EmptyDb
    /\ handles = {}
    /\ srv_db = EmptyDb
    /\ last = NoCall
    /\ resetting = NoReset

\* Client.__init__ with either configuration: persistent_path=None gives
\* ":memory:".
InitAnyConfig ==
    /\ conn_str \in {"file", ":memory:"}
    /\ db = EmptyDb
    /\ handles = {}
    /\ srv_db = EmptyDb
    /\ last = NoCall
    /\ resetting = NoReset

\* Client.create_collection(name): Collection.__init__ runs _create_table.
CreateCollection(name) ==
    /\ db' = Commit(CreateTableIfNotExists(Connect, name))
    /\ handles' = handles \cup {name}
    /\ last' = [NoCall EXCEPT !.op = "create_collection", !.coll = name,
                              !.text = <<name>>]
    /\ UNCHANGED <<resetting, conn_str, srv_db>>

\* The row add_image_vector writes: np.array(vector).tobytes() and
\* json.dumps(metadata) beside the payload and the key.
Row(path, image, metadata) ==
    [image_base64    |-> image,
     image_file_name |-> path,
     vector          |-> ToBytes(EmbeddingModel(image)),
     metadata        |-> JsonDumps(metadata)]

\* The name arguments tried: the two plain names; texts SQLite reads as one
\* of them (quoted, after a blank, qualified with main); a name in the
\* temporary schema; and two texts SQLite cannot read as a table name.
NameTexts == {<<"a">>, <<"b">>, <<"\"", "a", "\"">>, <<"[", "b", "]">>,
              <<"'", "b", "'">>, <<" ", "a">>,
              <<"m", "a", "i", "n", ".", "b">>, <<"t", "e", "m", "p", ".", "a">>,
              <<"a", " ", "b">>, <<"a", "-", "b">>}

\* Client.create_collection(name) with any text for a name: Collection.__init__
\* runs _create_table, whose statement carries the text as it is.  When the
\* statement fails the constructor raises and no handle comes back.  A table
\* made in the temporary schema is gone with the constructor's connection: the
\* call returns a handle, the file is as it was, and the handle is on no table
\* of the file (every later statement of it names a table that does not exist).
CreateCollectionNamed(text) ==
    LET parsed == SqlTableName(text)
        call   == [NoCall EXCEPT !.op = "create_collection", !.text = text]
    IN  /\ IF parsed.exc # ""
           THEN /\ UNCHANGED <<db, handles>>
                /\ last' = [call EXCEPT !.exc = parsed.exc]
           ELSE IF parsed.schema = "temp"
           THEN /\ UNCHANGED <<db, handles>>
                /\ last' = call
           ELSE /\ db' = Commit(CreateTableIfNotExists(Connect, parsed.table))
                /\ handles' = handles \cup {parsed.table}
                /\ last' = [call EXCEPT !.coll = parsed.table]
        /\ UNCHANGED <<resetting, conn_str, srv_db>>

\* What add_image_vector hands back after its INSERT: `except
\* sqlite3.IntegrityError: pass` falls through to the end of the function, where
\* an insert that stored a row ends too, so both return None; nothing is logged.
AddReturn(status) == IF status = "IntegrityError" THEN "None" ELSE "None"

\* Collection.add_image_vector(path, image_base64, vector, metadata), with the
\* payload and the vector of one image.  sqlite3.IntegrityError is swallowed;
\* a missing table raises sqlite3.OperationalError.
AddImageVector(name, path, image, metadata) ==
    /\ name \in handles
    /\ TotalRows(db) < MaxRows \/ HasKey(db[name], path)
    /\ LET view == Connect
           row  == Row(path, image, metadata)
           call == [NoCall EXCEPT !.op = "add_image_vector", !.coll = name,
                       !.path = path, !.image = image, !.meta = metadata,
                       !.vector = Float32Array(EmbeddingModel(image))]
       IN  IF ~view[name].exists
           THEN /\ db' = db
                /\ last' = [call EXCEPT !.exc = "OperationalError"]
           ELSE /\ db' = Commit([view EXCEPT ![name] = InsertRow(@, row).table])
                /\ last' = [call EXCEPT !.returned =
                                AddReturn(InsertRow(view[name], row).status)]
    /\ UNCHANGED <<resetting, conn_str, handles, srv_db>>

\* The row add_image_vector writes for any array.
RowOfArray(path, image, vector, metadata) ==
    [image_base64    |-> image,
     image_file_name |-> path,
     vector          |-> ArrayToBytes(vector),
     metadata        |-> JsonDumps(metadata)]

\* Collection.add_image_vector(path, image_base64, vector, metadata) with any
\* array for a vector.
AddImageVectorArray(name, path, image, vector, metadata) ==
    /\ name \in handles
    /\ TotalRows(db) < MaxRows \/ HasKey(db[name], path)
    /\ LET view == Connect
           row  == RowOfArray(path, image, vector, metadata)
           call == [NoCall EXCEPT !.op = "add_image_vector", !.coll = name,
                       !.path = path, !.image = image, !.meta = metadata,
                       !.vector = vector]
       IN  IF ~view[name].exists
           THEN /\ db' = db
                /\ last' = [call EXCEPT !.exc = "OperationalError"]
           ELSE /\ db' = Commit([view EXCEPT ![name] = InsertRow(@, row).table])
                /\ last' = [call EXCEPT !.returned =
                                AddReturn(InsertRow(view[name], row).status)]
    /\ UNCHANGED <<resetting, conn_str, handles, srv_db>>

\* Collection.get_all_vectors().
GetAllVectors(name) ==
    /\ name \in handles
    /\ LET view == Connect
           call == [NoCall EXCEPT !.op = "get_all_vectors", !.coll = name]
       IN  last' = IF ~view[name].exists
                   THEN [call EXCEPT !.exc = "OperationalError"]
                   ELSE [call EXCEPT !.all = DecodeRows(SelectAll(view[name]))]
    /\ UNCHANGED <<resetting, conn_str, db, handles, srv_db>>

\* Collection.find_similar_images(target_image, top_N, threshold, where).
QueryCall(name, target_image, top_N, threshold, where) ==
    LET view == Connect
        call == [NoCall EXCEPT !.op = "find_similar_images", !.coll = name,
                    !.image = target_image, !.top_N = top_N,
                    !.threshold = threshold, !.where = where]
    IN  IF ~view[name].exists
        THEN [call EXCEPT !.exc = "OperationalError"]
        ELSE [call EXCEPT !.result =
                 FindSimilarImages(SelectAll(view[name]), target_image,
                                   top_N, threshold, where)]

FindSimilar(name, target_image, top_N, threshold, where) ==
    /\ name \in handles
    /\ last' = QueryCall(name, target_image, top_N, threshold, where)
    /\ UNCHANGED <<resetting, conn_str, db, handles, srv_db>>

\* Client.reset_collection(collection), first transaction: DROP TABLE IF
\* EXISTS and commit on the client's connection.  The call then goes on to
\* collection._create_table(), which opens a connection of its own; until then
\* the file is committed without the table, and other callers act on that.
ResetCollectionDrop(name) ==
    /\ resetting = NoReset
    /\ name \in handles
    /\ db' = Commit(DropTableIfExists(Connect, name))
    /\ resetting' = [NoReset EXCEPT !.op = "reset_collection", !.coll = name,
                                    !.dropped = Len(Connect[name].rows)]
    /\ last' = [NoCall EXCEPT !.op = "reset_collection.drop", !.coll = name]
    /\ UNCHANGED <<conn_str, handles, srv_db>>

\* Client.reset_collection(collection), second transaction:
\* collection._create_table(), after which the call returns.
ResetCollectionCreate ==
    /\ resetting.op = "reset_collection"
    /\ db' = Commit(CreateTableIfNotExists(Connect, resetting.coll))
    /\ resetting' = NoReset
    /\ last' = [NoCall EXCEPT !.op = "reset_collection", !.coll = resetting.coll,
                   !.dropped = resetting.dropped,
                   !.alone = (last.op = "reset_collection.drop")]
    /\ UNCHANGED <<conn_str, handles, srv_db>>

\* Client.reset(), the SELECT on sqlite_master: the list of tables to drop is
\* fixed here.  With no table listed the loop is empty and the call returns.
ResetSelect ==
    /\ resetting = NoReset
    /\ LET tables == MasterTables(Connect)
       IN  /\ resetting' = IF tables = <<>> THEN NoReset
                           ELSE [NoReset EXCEPT !.op = "reset", !.todo = tables]
           /\ last' = [NoCall EXCEPT !.op =
                          IF tables = <<>> THEN "reset" ELSE "reset.select"]
    /\ UNCHANGED <<conn_str, db, handles, srv_db>>

\* Client.reset(), one DROP TABLE IF EXISTS of the loop: sqlite3 runs the
\* statement outside any transaction, so it is committed on its own.  After
\* the last one conn.commit() has nothing to commit and the call returns; no
\* table is created again.
ResetDrop ==
    /\ resetting.op = "reset"
    /\ LET name == Head(resetting.todo)
           rest == Tail(resetting.todo)
       IN  /\ db' = Commit(DropTableIfExists(Connect, name))
           /\ resetting' = IF rest = <<>> THEN NoReset
                           ELSE [resetting EXCEPT !.todo = rest]
           /\ last' = IF rest = <<>> THEN [NoCall EXCEPT !.op = "reset"]
                      ELSE [NoCall EXCEPT !.op = "reset.drop", !.coll = name]
    /\ UNCHANGED <<conn_str, handles, srv_db>>

\* ------------------------------------------------------------ remote side
\* (mutant) a get_db that hands back something a Collection can be built on.
GetDbConnected == [exc |-> ""]

\* server.get_db(): `Client(embedding_model, persistent_path='db.db3').conn`.
\* Client has no attribute `conn`, so the call raises AttributeError.
GetDb == [exc |-> "AttributeError"]

\* The response Flask gives a request: 200 with the handler's JSON body, or,
\* when the handler raised, 500 with an HTML error page (is_json FALSE).
Response(status, is_json, result) ==
    [status |-> status, is_json |-> is_json, result |-> result]

\* server.create_collection: echoes the name; touches no table.
ServerCreateCollection(name) == Response(200, TRUE, NoResult)

\* server.add_image: image_from_base64, then Collection(name, get_db(), ...):
\* get_db() raises before the Collection is constructed.
ServerAddImage(name, path, image, metadata) ==
    IF GetDb.exc # "" THEN Response(500, FALSE, NoResult)
    ELSE Response(200, TRUE, NoResult)

\* server.find_similar: the same, before any query runs.
ServerFindSimilar(name, image, top_N, threshold, where) ==
    IF GetDb.exc # "" THEN Response(500, FALSE, NoResult)
    ELSE Response(200, TRUE,
                  FindSimilarImages(SelectAll(srv_db[name]), image,
                                    top_N, threshold, where))

\* What the server's file holds after add_image or find_similar ran:
\* Collection.__init__ is reached only when get_db() returned.
ServerDbAfter(name) ==
    IF GetDb.exc # "" THEN srv_db ELSE CreateTableIfNotExists(srv_db, name)

\* HTTPclient.create_collection(Name): an HTTPCollection is returned when the
\* status is 200 and the message is the expected one.
HTTPCreateCollection(name) ==
    /\ LET response == ServerCreateCollection(name)
           call     == [NoCall EXCEPT !.op = "http_create_collection", !.coll = name,
                           !.status = response.status]
       IN  last' = IF response.status = 200 /\ response.is_json THEN call
                   ELSE [call EXCEPT !.exc =
                           IF response.is_json THEN "Exception" ELSE "JSONDecodeError"]
    /\ UNCHANGED <<resetting, conn_str, db, handles, srv_db>>

\* HTTPCollection.add_image(image_path, metadata): on a status other than 200
\* it formats response.json() into the Exception it raises, and json() itself
\* raises when the body is not JSON.
HTTPAddImage(name, path, metadata) ==
    /\ LET response == ServerAddImage(name, path, FileImage(path), metadata)
           call     == [NoCall EXCEPT !.op = "http_add_image", !.coll = name,
                           !.path = path, !.image = FileImage(path),
                           !.meta = metadata, !.status = response.status]
       IN  last' = IF response.status = 200 THEN call
                   ELSE [call EXCEPT !.exc =
                           IF response.is_json THEN "Exception" ELSE "JSONDecodeError"]
    /\ srv_db' = ServerDbAfter(name)
    /\ UNCHANGED <<resetting, conn_str, db, handles>>

\* HTTPCollection.find_similar_images(image, top_N, threshold, where):
\* qresult(**response.json()) runs before the status is looked at.
HTTPFindSimilar(name, image, top_N, threshold, where) ==
    /\ LET response == ServerFindSimilar(name, image, top_N, threshold, where)
           call     == [NoCall EXCEPT !.op = "http_find_similar_images",
                           !.coll = name, !.image = image, !.top_N = top_N,
                           !.threshold = threshold, !.where = where,
                           !.status = response.status]
       IN  last' = IF ~response.is_json THEN [call EXCEPT !.exc = "JSONDecodeError"]
                   ELSE IF response.status # 200 THEN [call EXCEPT !.exc = "Exception"]
                   ELSE [call EXCEPT !.result = response.result]
    /\ srv_db' = ServerDbAfter(name)
    /\ UNCHANGED <<resetting, conn_str, db, handles>>

\* ------------------------------------------------------------------ next
\* The life cycle of one caller, whose calls come one after the other (a
\* reset call in flight runs to its end before the next call starts); queries
\* pass the defaults of find_similar_images.
Next ==
    \/ /\ resetting = NoReset
       /\ \/ \E name \in Names : CreateCollection(name)
          \/ \E name \in Names, path \in Paths, ins \in Inserts :
                AddImageVector(name, path, ins.image, ins.metadata)
          \/ \E name \in Names : GetAllVectors(name)
          \/ \E name \in Names, image \in QueryImages :
                FindSimilar(name, image, DefaultTopN, DefaultThreshold, WhereNone)
          \/ \E name \in Names : HTTPCreateCollection(name)
          \/ \E name \in Names, path \in Paths, metadata \in Metas :
                HTTPAddImage(name, path, metadata)
          \/ \E name \in Names, image \in QueryImages :
                HTTPFindSimilar(name, image, DefaultTopN, DefaultThreshold, WhereNone)
    \/ \E name \in Names : ResetCollectionDrop(name)
    \/ ResetCollectionCreate
    \/ ResetSelect
    \/ ResetDrop

Spec == Init /\ [][Next]_vars

\* Creating, inserting and reading only, under either configuration.
NextLocal ==
    \/ \E name \in Names : CreateCollection(name)
    \/ \E name \in Names, path \in Paths, ins \in Inserts :
          AddImageVector(name, path, ins.image, ins.metadata)
    \/ \E name \in Names : GetAllVectors(name)
    \/ \E name \in Names, image \in QueryImages :
          FindSimilar(name, image, DefaultTopN, DefaultThreshold, WhereNone)

SpecAnyConfig == InitAnyConfig /\ [][NextLocal]_vars

\* Several callers on the one file: while a reset call is between two of its
\* statements, the calls of other callers (on connections of their own) run on
\* the file as it is committed at that moment.
NextConcurrent ==
    \/ NextLocal
    \/ \E name \in Names : ResetCollectionDrop(name)
    \/ ResetCollectionCreate
    \/ ResetSelect
    \/ ResetDrop

SpecConcurrent == Init /\ [][NextConcurrent]_vars

\* ------------------------------------------------- the query on its own
\* Every content a table can have after at most n inserts: rows in insertion
\* order, no image_file_name twice.
RECURSIVE Contents(_)
Contents(n) ==
    IF n = 0 THEN {<<>>}
    ELSE LET shorter == Contents(n - 1)
         IN  shorter \cup
             UNION {{Append(rows, Row(path, image, metadata)) :
                        path \in {p \in Paths : ~HasKey([rows |-> rows], p)},
                        image \in Images, metadata \in Metas} :
                    rows \in {r \in shorter : Len(r) = n - 1}}

\* Collection "a" of a persistent store, holding any content.
InitQuery ==
    /\ conn_str = "file"
    /\ db \in {[EmptyDb EXCEPT !["a"] = [exists |-> TRUE, rows |-> rows, rank |-> 1]] :
                 rows \in Contents(MaxStored)}
    /\ handles = {"a"}
    /\ srv_db = EmptyDb
    /\ last = NoCall
    /\ resetting = NoReset

\* The same query again, with no write in between.
FindSimilarAgain ==
    /\ last.op = "find_similar_images"
    /\ ~last.again
    /\ last.coll \in handles
    /\ last' = [QueryCall(last.coll, last.image, last.top_N, last.threshold,
                          last.where)
                   EXCEPT !.again = TRUE, !.before = last.result]
    /\ UNCHANGED <<resetting, conn_str, db, handles, srv_db>>

NextQuery ==
    \/ /\ last.op = ""
       /\ \E name \in Names, image \in QueryImages, top_N \in TopNs,
             threshold \in Thresholds, where \in Wheres :
             FindSimilar(name, image, top_N, threshold, where)
    \/ FindSimilarAgain

SpecQuery == InitQuery /\ [][NextQuery]_vars

\* ----------------------------------------------- the predicate on its own
MatchKeys   == {"ext", "x"}
MatchValues == {VNone, Png, VNum(1), VBool(TRUE)}
MatchDicts  ==
    UNION {[keys -> MatchValues] : keys \in SUBSET MatchKeys}
MatchWheres == {WhereNone} \cup {WhereDict(d) : d \in MatchDicts}

\* A call of Collection._metadata_matches(metadata, where).
MetadataMatchesCall(metadata, where) ==
    /\ last' = [NoCall EXCEPT !.op = "_metadata_matches", !.meta = metadata,
                   !.where = where, !.matches = MetadataMatches(metadata, where)]
    /\ UNCHANGED <<resetting, conn_str, db, handles, srv_db>>

NextMatch ==
    \E metadata \in MatchDicts, where \in MatchWheres :
        MetadataMatchesCall(metadata, where)

SpecMatch == Init /\ [][NextMatch]_vars

\* Collections made under any name text, filled, read and reset.
NextNames ==
    \/ \E text \in NameTexts : CreateCollectionNamed(text)
    \/ \E name \in Names, ins \in Inserts, path \in Paths :
          AddImageVector(name, path, ins.image, ins.metadata)
    \/ \E name \in Names : GetAllVectors(name)
    \/ ResetSelect
    \/ ResetDrop

SpecNames == Init /\ [][NextNames]_vars

\* The arrays stored: a float32 vector, the float32 array of shape (1, D) a
\* batched model call returns (embeddings.py: last_hidden_states[:, 0]), and
\* float64 vectors, which np.array makes of a list of Python floats.
Arrays == {Float32Array(<<1, 0>>),
           [dtype |-> "float32", shape |-> <<1, 2>>, data |-> <<0, 1>>],
           [dtype |-> "float64", shape |-> <<2>>,    data |-> <<2, 0>>]}

\* Collections filled with any of the arrays and read back.
NextRoundTrip ==
    \/ \E name \in Names : CreateCollection(name)
    \/ \E name \in Names, path \in Paths, vector \in Arrays, metadata \in Metas :
          AddImageVectorArray(name, path, "i1", vector, metadata)
    \/ \E name \in Names : GetAllVectors(name)

SpecRoundTrip == Init /\ [][NextRoundTrip]_vars

\* ================================================================ claims
\* What a query is about: the rows of the queried table, their scores against
\* the query image, and the rows the returned list may hold.
QRows       == db[last.coll].rows
QScore(i)   == CalculateCosineSimilarity(EmbeddingModel(last.image),
                                         FromBuffer(QRows[i].vector))
QAbove      == {i \in DOMAIN QRows : Ge(QScore(i), AsScore(last.threshold))}
QEligible   == {i \in QAbove :
                  MetadataMatches(JsonLoads(QRows[i].metadata), last.where)}
Returned    == last.op = "find_similar_images" /\ last.exc = ""
\* The storage position of the record with the given key.
QIndex(path) == CHOOSE i \in DOMAIN QRows : QRows[i].image_file_name = path

\* ---- C1
\* C1 (idempotent insert).  add_image_vector with a key the table already
\* holds does not raise and leaves every table as it was, so the key keeps its
\* one record with the payload, vector and metadata of the first insert.
C1_IdempotentInsert ==
    [][(/\ last'.op = "add_image_vector"
        /\ HasKey(db[last'.coll], last'.path))
       => /\ last'.exc = ""
          /\ db' = db
          /\ Cardinality({i \in DOMAIN db'[last'.coll].rows :
                db'[last'.coll].rows[i].image_file_name = last'.path}) = 1]_vars

\* A duplicate insert carrying another payload has run, and the table still
\* holds the first payload under that key.
C1_Witness ==
    /\ last.op = "add_image_vector"
    /\ last.exc = ""
    /\ \E i \in DOMAIN db[last.coll].rows :
          /\ db[last.coll].rows[i].image_file_name = last.path
          /\ db[last.coll].rows[i].image_base64 # last.image
          /\ db[last.coll].rows[i].metadata # JsonDumps(last.meta)

\* ---- C2
\* C2 (count ignores filter and top_N).  n_findings is the number of stored
\* records whose score is >= threshold, whatever `where` and top_N are.
C2_CountIgnoresFilter ==
    Returned => last.result.n_findings = Cardinality(QAbove)

\* Three records are above the threshold, two of them fail the filter:
\* n_findings is 3 and the list holds the one that matches.
C2_Witness ==
    /\ Returned
    /\ last.result.n_findings = 3
    /\ Cardinality(QEligible) = 1
    /\ Len(last.result.files) = 1
    /\ last.top_N > 1

\* ---- C3
\* C3 (ranked list).  For top_N >= 1 the four lists have length
\* min(top_N, E), E the number of records with score >= threshold that satisfy
\* the filter; each position holds the key, payload, score and metadata of one
\* such record, no record twice; scores do not increase along the list; no
\* eligible record left out scores strictly higher than a returned one.
C3_RankedList ==
    (Returned /\ last.top_N >= 1) =>
        LET r == last.result
            E == Cardinality(QEligible)
            n == IF last.top_N < E THEN last.top_N ELSE E
        IN  /\ Len(r.files) = n
            /\ Len(r.scores) = n /\ Len(r.base64) = n /\ Len(r.metadata) = n
            /\ \A j \in 1..n : \E i \in QEligible :
                  /\ QRows[i].image_file_name = r.files[j]
                  /\ QRows[i].image_base64 = r.base64[j]
                  /\ QScore(i) = r.scores[j]
                  /\ JsonLoads(QRows[i].metadata) = r.metadata[j]
            /\ \A j, k \in 1..n : j # k => r.files[j] # r.files[k]
            /\ \A j, k \in 1..n : j < k => Ge(r.scores[j], r.scores[k])
            /\ \A i \in QEligible :
                  (\A j \in 1..n : r.files[j] # QRows[i].image_file_name)
                  => \A j \in 1..n : ~Gt(QScore(i), r.scores[j])

\* Under a filter the list was cut to top_N, its last item scores exactly the
\* threshold, and a record below the threshold was left out.
C3_Witness ==
    /\ Returned
    /\ last.top_N >= 1
    /\ ~last.where.none
    /\ Len(last.result.files) = last.top_N
    /\ Cardinality(QEligible) > last.top_N
    /\ last.result.scores[last.top_N] = AsScore(last.threshold)
    /\ \E i \in DOMAIN QRows : i \notin QAbove

\* ---- C4
\* C4 (top_N <= 0), as claimed: for zero and every negative top_N the four
\* lists are empty and n_findings is still the count of records with
\* score >= threshold.
C4_NonPositiveTopNEmpty ==
    (Returned /\ last.top_N <= 0) =>
        /\ last.result.scores = <<>>
        /\ last.result.files = <<>>
        /\ last.result.base64 = <<>>
        /\ last.result.metadata = <<>>
        /\ last.result.n_findings = Cardinality(QAbove)

\* ---- C5
\* C5 (stable, deterministic ties).  Two returned records with equal scores
\* appear in their storage order, and the same query run again with no write
\* in between returns the same lists.
C5_StableTies ==
    Returned =>
        LET r == last.result
        IN  /\ \A j, k \in DOMAIN r.files :
                  (j < k /\ r.scores[j] = r.scores[k])
                  => QIndex(r.files[j]) < QIndex(r.files[k])
            /\ last.again => r = last.before

\* A repeated query returned two records of equal score, stored in the order
\* opposite to the order of their keys; the third stored record is not
\* eligible.
C5_Witness ==
    /\ Returned
    /\ last.again
    /\ Len(last.result.files) = 2
    /\ last.result.scores[1] = last.result.scores[2]
    /\ last.result.files = <<"k2", "k1">>
    /\ Cardinality(QEligible) = 2
    /\ Len(QRows) = 3

\* ---- C6
\* C6 (metadata predicate), as claimed: true for an absent or empty filter;
\* otherwise true iff every key of the filter is a key of the metadata with an
\* equal value of the same type, so a missing key gives false for every filter
\* value and values of different types (string, number, boolean) give false.
C6_ExactTypedMatch ==
    last.op = "_metadata_matches" =>
        (last.matches <=>
            \/ last.where.none
            \/ DOMAIN last.where.d = {}
            \/ \A key \in DOMAIN last.where.d :
                  /\ key \in DOMAIN last.meta
                  /\ last.meta[key] = last.where.d[key])

\* ---- C7
\* C7 (read your writes), as claimed: under either Client configuration,
\* get_all_vectors and find_similar_images on a created Collection return, and
\* get_all_vectors returns exactly the records inserted so far, in order.
C7_ReadYourWrites ==
    (last.op \in {"get_all_vectors", "find_similar_images"}) =>
        /\ last.exc = ""
        /\ last.op = "get_all_vectors" =>
              /\ last.all.paths =
                    [i \in DOMAIN db[last.coll].rows |->
                        db[last.coll].rows[i].image_file_name]
              /\ last.all.files =
                    [i \in DOMAIN db[last.coll].rows |->
                        db[last.coll].rows[i].image_base64]

\* ---- C8
\* C8 (always ready), as claimed: whenever no reset call is in the middle of
\* its statements, every constructed Collection has its table, and no insert
\* or read on it has failed for lack of the table.
C8_AlwaysReady ==
    resetting = NoReset =>
        /\ \A name \in handles : Connect[name].exists
        /\ last.op \in {"add_image_vector", "get_all_vectors", "find_similar_images"}
              => last.exc # "OperationalError"

\* ---- C9
\* C9 (reset_collection).  Across reset_collection(c) every other table keeps
\* its rows; when no other call comes between its two transactions it leaves
\* c an existing, empty table, and run right after it on c, get_all_vectors
\* returns no record, a query returns n_findings = 0 with empty lists, and an
\* insert of any key stores that record.
C9_ResetCollection ==
    [][/\ last'.op \in {"reset_collection.drop", "reset_collection"} =>
             \A name \in Names \ {last'.coll} :
                /\ db'[name].exists = db[name].exists
                /\ db'[name].rows = db[name].rows
       /\ (last.op = "reset_collection.drop" /\ last'.op = "reset_collection") =>
             /\ last'.alone
             /\ db'[last'.coll].exists
             /\ db'[last'.coll].rows = <<>>
       /\ (last.op = "reset_collection" /\ last.alone /\ last'.coll = last.coll) =>
             /\ last'.op = "get_all_vectors" =>
                   last'.exc = "" /\ last'.all = NoAll
             /\ last'.op = "find_similar_images" =>
                   last'.exc = "" /\ last'.result = NoResult
             /\ last'.op = "add_image_vector" =>
                   /\ last'.exc = ""
                   /\ db'[last.coll].rows =
                         <<Row(last'.path, last'.image, last'.meta)>>]_vars

\* reset_collection, run with no call in between, removed the records of one
\* collection while the other collection holds records.
C9_Witness ==
    /\ last.op = "reset_collection"
    /\ last.alone
    /\ last.dropped > 0
    /\ \E name \in Names \ {last.coll} : db[name].rows # <<>>

\* ---- C10
\* C10 (remote/local parity), as claimed: when the server's collection and the
\* local collection hold the same records, HTTPCollection.find_similar_images
\* returns what Collection.find_similar_images returns locally.
C10_RemoteLocalParity ==
    (/\ last.op = "http_find_similar_images"
     /\ last.coll \in handles
     /\ db[last.coll].exists
     /\ srv_db[last.coll].rows = db[last.coll].rows) =>
        /\ last.exc = ""
        /\ last.result = FindSimilarImages(SelectAll(db[last.coll]), last.image,
                                           last.top_N, last.threshold, last.where)

\* ---- C11
\* C11 (remote failure mapping), as claimed: a remote call whose response
\* status is not 200 raises the backend failure that carries the response
\* body (the Exception the client builds), and no other error before it.
C11_FailureMapping ==
    (/\ last.op \in {"http_create_collection", "http_add_image",
                     "http_find_similar_images"}
     /\ last.status # 200) =>
        last.exc = "Exception"

\* ---- C12
\* A vector of norm zero, for which the cosine similarity is 0/0.
ZeroNorm(vector) == Dot(vector, vector) = 0

\* C12 (zero norm is a domain error), as claimed: add_image_vector with an
\* all-zero vector, and a query whose query vector or one of whose stored
\* vectors has norm zero, end in a validation error for the caller (on a
\* table that exists, so that no other error is due).
C12_ZeroNormRejected ==
    /\ (/\ last.op = "add_image_vector"
        /\ db[last.coll].exists
        /\ ZeroNorm(EmbeddingModel(last.image))) =>
           last.exc = "ValidationError"
    /\ (/\ last.op = "find_similar_images"
        /\ db[last.coll].exists
        /\ \/ ZeroNorm(EmbeddingModel(last.image))
           \/ \E i \in DOMAIN QRows : ZeroNorm(FromBuffer(QRows[i].vector))) =>
           last.exc = "ValidationError"

\* ---- C13
\* A simple identifier in the claim's sense: alphanumeric characters and
\* underscores only.
IsSimpleIdentifier(text) ==
    text # <<>> /\ \A i \in DOMAIN text : text[i] \in IdentChars

\* C13 (names are validated), as claimed: create_collection with a name that
\* is not a simple identifier fails with an error and leaves every table of
\* the store as it was.
C13_NamesValidated ==
    [][(/\ last'.op = "create_collection"
        /\ ~IsSimpleIdentifier(last'.text)) =>
           (last'.exc # "" /\ db' = db)]_vars

\* ---- C14
\* C14 (a conflict is observable), as claimed: an add_image_vector whose key
\* the table already holds does not raise, and what it reports differs from
\* what an insert that stored a record reports.
C14_ConflictObservable ==
    [][(/\ last'.op = "add_image_vector"
        /\ db[last'.coll].exists
        /\ HasKey(db[last'.coll], last'.path)) =>
           (/\ last'.exc = ""
            /\ last'.returned # AddReturn("ok"))]_vars

\* ---- C15
\* C15 (storage round trip), as claimed: when add_image_vector has stored a
\* record, the record get_all_vectors decodes from the table carries the
\* vector that was given, element for element and of the same shape, the
\* metadata that was given, and the payload and key as given.
C15_RoundTrip ==
    [][(/\ last'.op = "add_image_vector"
        /\ last'.exc = ""
        /\ Len(db'[last'.coll].rows) = Len(db[last'.coll].rows) + 1) =>
           LET all == DecodeRows(SelectAll(db'[last'.coll]))
               n   == Len(all.paths)
           IN  /\ all.vectors[n] = last'.vector.data
               /\ <<Len(all.vectors[n])>> = last'.vector.shape
               /\ all.metadata[n] = last'.meta
               /\ all.files[n] = last'.image
               /\ all.paths[n] = last'.path]_vars

\* ---- C16
\* C16 (a query is read-only).  A find_similar_images step, made on a local
\* handle or through the server, leaves the tables and rows of the local file
\* and of the server's file as they were, also when the table queried is
\* missing; nothing about the query image is written.
C16_QueryReadOnly ==
    [][(last'.op \in {"find_similar_images", "http_find_similar_images"}) =>
           (db' = db /\ srv_db' = srv_db)]_vars

\* A query was made for a collection whose table the store does not hold,
\* while the store holds records of another collection.
C16_Witness ==
    /\ last.op = "find_similar_images"
    /\ ~db[last.coll].exists
    /\ TotalRows(db) > 0

\* ---- C17
\* C17 (provisioning is idempotent).  create_collection for a name whose
\* table exists changes no table and no row; a get_all_vectors right after it
\* succeeds and returns exactly the rows stored before it; and whatever handle
\* of the name an insert went through, a read returns the rows of the one
\* table of that name.
C17_IdempotentProvisioning ==
    [][/\ (last'.op = "create_collection" /\ db[last'.coll].exists) =>
              db' = db
       /\ (/\ last.op = "create_collection"
           /\ last'.op = "get_all_vectors"
           /\ last'.coll = last.coll) =>
              (/\ last'.exc = ""
               /\ last'.all = DecodeRows(SelectAll(db[last.coll])))
       /\ (last'.op = "get_all_vectors" /\ last'.exc = "") =>
              last'.all = DecodeRows(SelectAll(db[last'.coll]))]_vars

\* create_collection was called for a name whose table holds records.
C17_Witness ==
    /\ last.op = "create_collection"
    /\ last.exc = ""
    /\ db[last.coll].rows # <<>>

====
